---- MODULE Spec2Model ----
(***************************************************************************)
(* Model of src/main.py: the request handlers convert_integer,             *)
(* convert_fraction, binary_arithmetic and ascii_encoder.                  *)
(*                                                                         *)
(* A Python str is a sequence of one-character strings.  A Python int is   *)
(* an integer (the operands are kept small, Python's are unbounded).  A    *)
(* Python float is modelled exactly, as the integer numerator of a         *)
(* fraction over Scale: the requests are drawn so that every binary64      *)
(* operation the handler performs is exact (see ExactFraction).            *)
(*                                                                         *)
(* One behaviour is one call of a handler on a request drawn from a        *)
(* bounded set, or a convert_integer call followed by the conversion of    *)
(* its result back to the base it came from.                               *)
(***************************************************************************)
EXTENDS Integers, Sequences, FiniteSets, TLC

VARIABLES endpoint, request, response, origin

vars == <<endpoint, request, response, origin>>

-----------------------------------------------------------------------------
(* Bounds of the model *)

\* longest literal sent to convert_integer
MaxLen == 3
\* longest integer part and longest fractional part sent to convert_fraction
MaxIntLen == 2
MaxFracLen == 2
\* largest precision sent to convert_fraction
MaxPrecision == 4
\* largest magnitude of an operand of binary_arithmetic
MaxOperand == 8
\* longest text sent to ascii_encoder
MaxText == 3

-----------------------------------------------------------------------------
(* Characters *)

UpperDigits == <<"0", "1", "2", "3", "4", "5", "6", "7", "8", "9",
                 "A", "B", "C", "D", "E", "F", "G", "H", "I", "J", "K", "L", "M",
                 "N", "O", "P", "Q", "R", "S", "T", "U", "V", "W", "X", "Y", "Z">>

LowerDigits == <<"0", "1", "2", "3", "4", "5", "6", "7", "8", "9",
                 "a", "b", "c", "d", "e", "f", "g", "h", "i", "j", "k", "l", "m",
                 "n", "o", "p", "q", "r", "s", "t", "u", "v", "w", "x", "y", "z">>

IndexOf(seq, c) == CHOOSE i \in 1..Len(seq) : seq[i] = c

InSeq(seq, c) == \E i \in 1..Len(seq) : seq[i] = c

\* the digit value int() gives a character; 37 for a character that is no digit
DigitValue(c) ==
    IF InSeq(UpperDigits, c) THEN IndexOf(UpperDigits, c) - 1
    ELSE IF InSeq(LowerDigits, c) THEN IndexOf(LowerDigits, c) - 1
    ELSE 37

\* str.upper() on one character
UpperChar(c) ==
    IF InSeq(LowerDigits, c) THEN UpperDigits[IndexOf(LowerDigits, c)] ELSE c

Upper(s) == [i \in 1..Len(s) |-> UpperChar(s[i])]

\* whitespace as int() strips it (of the model's characters only the space)
IsSpace(c) == c = " "

RECURSIVE LStrip(_)
LStrip(s) == IF s # <<>> /\ IsSpace(Head(s)) THEN LStrip(Tail(s)) ELSE s

\* the code points of the characters the model sends to ascii_encoder;
\* the two characters outside ASCII are written by their code point's name
Ord(c) ==
    CASE c = "\n" -> 10
      [] c = " " -> 32
      [] c = "0" -> 48
      [] c = "A" -> 65
      [] c = "z" -> 122
      [] c = "U+00FF" -> 255
      [] c = "U+0100" -> 256

\* chr() on the code points of the uppercase letters
Chr(n) == UpperDigits[n - 65 + 11]

-----------------------------------------------------------------------------
(* int(text, base) *)

ValueError == [ok |-> FALSE, value |-> 0]

\* the digit scan of int(): digits and single underscores between them
RECURSIVE ScanDigits(_, _, _, _, _)
ScanDigits(s, base, prev, digits, acc) ==
    IF s # <<>> /\ (DigitValue(Head(s)) < base \/ Head(s) = "_")
    THEN IF Head(s) = "_"
         THEN IF prev = "_"
              THEN [err |-> TRUE, digits |-> digits, value |-> acc, rest |-> s]
              ELSE ScanDigits(Tail(s), base, "_", digits, acc)
         ELSE ScanDigits(Tail(s), base, Head(s), digits + 1,
                         acc * base + DigitValue(Head(s)))
    ELSE [err |-> prev = "_", digits |-> digits, value |-> acc, rest |-> s]

HasBasePrefix(s, base) ==
    /\ Len(s) >= 2
    /\ s[1] = "0"
    /\ \/ base = 16 /\ s[2] \in {"x", "X"}
       \/ base = 8 /\ s[2] \in {"o", "O"}
       \/ base = 2 /\ s[2] \in {"b", "B"}

\* int(s, base) for base # 0: surrounding whitespace, a sign, the base's
\* prefix and single underscores are accepted; anything else is a ValueError
ParseInt(s, base) ==
    IF base < 2 \/ base > 36 THEN ValueError
    ELSE
      LET s1 == LStrip(s)
          neg == s1 # <<>> /\ Head(s1) = "-"
          s2 == IF s1 # <<>> /\ Head(s1) \in {"+", "-"} THEN Tail(s1) ELSE s1
          s3 == IF HasBasePrefix(s2, base)
                THEN LET t == SubSeq(s2, 3, Len(s2))
                     IN IF t # <<>> /\ Head(t) = "_" THEN Tail(t) ELSE t
                ELSE s2
      IN IF s3 # <<>> /\ Head(s3) = "_" THEN ValueError
         ELSE
           LET sc == ScanDigits(s3, base, "", 0, 0)
           IN IF sc.err \/ sc.digits = 0 \/ LStrip(sc.rest) # <<>>
              THEN ValueError
              ELSE [ok |-> TRUE, value |-> IF neg THEN -sc.value ELSE sc.value]

-----------------------------------------------------------------------------
(* str(int), bin(), oct(), hex() and the slice [2:] *)

RECURSIVE ToDigits(_, _)
ToDigits(n, base) ==
    IF n < base THEN <<LowerDigits[n + 1]>>
    ELSE ToDigits(n \div base, base) \o <<LowerDigits[(n % base) + 1]>>

Abs(n) == IF n < 0 THEN -n ELSE n

Sign(n) == IF n < 0 THEN <<"-">> ELSE <<>>

Str(n) == Sign(n) \o ToDigits(Abs(n), 10)

Bin(n) == Sign(n) \o <<"0", "b">> \o ToDigits(Abs(n), 2)

Oct(n) == Sign(n) \o <<"0", "o">> \o ToDigits(Abs(n), 8)

Hex(n) == Sign(n) \o <<"0", "x">> \o ToDigits(Abs(n), 16)

\* the slice taken one place early, [1:]
SliceFrom1(s) == SubSeq(s, 2, Len(s))

SliceFrom2(s) == SubSeq(s, 3, Len(s))

-----------------------------------------------------------------------------
(* Responses *)

NoRequest == [none |-> TRUE]

BadNumber == [status |-> 400, detail |-> "bad number"]

BadFraction == [status |-> 400, detail |-> "bad fraction"]

BadBase == [status |-> 400, detail |-> "bases 2, 8, 10, 16 only"]

BadOperation == [status |-> 400, detail |-> "add, sub or mul"]

-----------------------------------------------------------------------------
(* convert_integer *)

ConvertInteger(req) ==
    LET p == ParseInt(req.number, req.from_base)
        decimal_value == p.value
        Reply(result) ==
            [status |-> 200, input |-> req.number, from_base |-> req.from_base,
             to_base |-> req.to_base, result |-> result,
             decimal_value |-> decimal_value]
    IN IF ~p.ok THEN BadNumber
       ELSE IF req.to_base = 10 THEN Reply(Str(decimal_value))
       ELSE IF req.to_base = 2 THEN Reply(SliceFrom2(Bin(decimal_value)))
       ELSE IF req.to_base = 8 THEN Reply(SliceFrom2(Oct(decimal_value)))
       ELSE IF req.to_base = 16 THEN Reply(Upper(SliceFrom2(Hex(decimal_value))))
       ELSE BadBase

\* the four bases the tool names, and the bases the model sends
Bases == {2, 8, 10, 16}

FromBases == {1, 2, 4, 8, 10, 16}

ToBases == {2, 3, 8, 10, 16}

Strings(chars, n) == UNION {[1..k -> chars] : k \in 0..n}

IntChars == {"0", "1", "2", "7", "F", "a", "G", "-", "+", "_", " ", "x"}

ConvertIntRequests ==
    [number : Strings(IntChars, MaxLen), from_base : FromBases, to_base : ToBases]

convert_integer ==
    /\ endpoint = "idle"
    /\ \E req \in ConvertIntRequests :
          /\ request' = req
          /\ response' = ConvertInteger(req)
    /\ endpoint' = "convert_integer"
    /\ origin' = NoRequest

\* a client converts the result of a successful conversion back to the base
\* the literal was written in
convert_integer_back ==
    /\ endpoint = "convert_integer"
    /\ origin = NoRequest
    /\ response.status = 200
    /\ LET req == [number |-> response.result, from_base |-> request.to_base,
                   to_base |-> request.from_base]
       IN /\ request' = req
          /\ response' = ConvertInteger(req)
    /\ origin' = request
    /\ endpoint' = "convert_integer"

-----------------------------------------------------------------------------
(* Floats.  A float x is the integer x * Scale; every fraction the model    *)
(* sends has at most MaxFracLen digits, so Scale makes each one an integer. *)

RECURSIVE Pow(_, _)
Pow(b, n) == IF n = 0 THEN 1 ELSE b * Pow(b, n - 1)

Scale == Pow(16, MaxFracLen)

\* val * (from_base ** -(i + 1)): exact in binary64 when from_base is a power
\* of two; the requests are drawn so that the division here is exact and is
\* the binary64 product (5 * 10 ** -1 is 0.5)
FractionTerm(val, from_base, i) == (val * Scale) \div Pow(from_base, i + 1)

\* the digits str(float) writes after the point, for a float that has a
\* finite decimal expansion shorter than 17 digits
RECURSIVE DecimalTail(_)
DecimalTail(r) ==
    LET d == (r * 10) \div Scale
        next == (r * 10) % Scale
    IN IF next = 0 THEN <<LowerDigits[d + 1]>>
       ELSE <<LowerDigits[d + 1]>> \o DecimalTail(next)

\* str(float), for |x| in [0.0001, 10^16) or x = 0.0
FloatStr(x) ==
    Sign(x) \o ToDigits(Abs(x) \div Scale, 10) \o <<".">> \o DecimalTail(Abs(x) % Scale)

-----------------------------------------------------------------------------
(* convert_fraction *)

\* str.replace(',', '.')
ReplaceComma(s) == [i \in 1..Len(s) |-> IF s[i] = "," THEN "." ELSE s[i]]

FirstPoint(s) == CHOOSE i \in 1..Len(s) : s[i] = "." /\ \A j \in 1..(i - 1) : s[j] # "."

\* str.split('.')
RECURSIVE Split(_)
Split(s) ==
    IF ~InSeq(s, ".") THEN <<s>>
    ELSE <<SubSeq(s, 1, FirstPoint(s) - 1)>> \o Split(SubSeq(s, FirstPoint(s) + 1, Len(s)))

\* lines 79-85: the integer and the fractional substring
Parts(number) ==
    LET replaced == ReplaceComma(number)
        num_str == IF ~InSeq(replaced, ".") THEN replaced \o <<".", "0">> ELSE replaced
    IN Split(num_str)

\* lines 90-93: the loop over the fraction's characters, from index i on
RECURSIVE AccumulateFraction(_, _, _, _)
AccumulateFraction(fraction_part, from_base, i, dec_frac) ==
    IF i >= Len(fraction_part) THEN [ok |-> TRUE, value |-> dec_frac]
    ELSE LET p == ParseInt(<<fraction_part[i + 1]>>, from_base)
         IN IF ~p.ok THEN ValueError
            ELSE AccumulateFraction(fraction_part, from_base, i + 1,
                                    dec_frac + FractionTerm(p.value, from_base, i))

\* the digit loop without its test for a zero remainder
RECURSIVE FractionDigitsNoStop(_, _, _, _)
FractionDigitsNoStop(current_frac, to_base, remaining, res_frac) ==
    IF remaining <= 0 THEN res_frac
    ELSE LET scaled == current_frac * to_base
             digit == scaled \div Scale
             shown == IF digit >= 10 THEN <<Chr(Ord("A") + digit - 10)>> ELSE Str(digit)
         IN FractionDigitsNoStop(scaled - digit * Scale, to_base, remaining - 1,
                                 res_frac \o shown)

\* lines 112-123: the loop that emits the fractional digits
RECURSIVE FractionDigits(_, _, _, _)
FractionDigits(current_frac, to_base, remaining, res_frac) ==
    IF remaining <= 0 THEN res_frac
    ELSE LET scaled == current_frac * to_base
             digit == scaled \div Scale
             shown == IF digit >= 10 THEN <<Chr(Ord("A") + digit - 10)>> ELSE Str(digit)
             left == scaled - digit * Scale
         IN IF left = 0 THEN res_frac \o shown
            ELSE FractionDigits(left, to_base, remaining - 1, res_frac \o shown)

ConvertFraction(req) ==
    LET parts == Parts(req.number)
        integer_part == parts[1]
        fraction_part == parts[2]
        pi == ParseInt(integer_part, req.from_base)
        dec_int == pi.value
        pf == AccumulateFraction(fraction_part, req.from_base, 0, 0)
        dec_frac == pf.value
        full_decimal == dec_int * Scale + dec_frac
        res_int == IF req.to_base = 2 THEN SliceFrom2(Bin(dec_int))
                   ELSE IF req.to_base = 8 THEN SliceFrom2(Oct(dec_int))
                   ELSE IF req.to_base = 16 THEN Upper(SliceFrom2(Hex(dec_int)))
                   ELSE Str(dec_int)
        res_frac == FractionDigits(dec_frac, req.to_base, req.precision, <<>>)
    IN IF ~pi.ok \/ ~pf.ok THEN BadFraction
       ELSE IF req.to_base = 10 THEN [status |-> 200, result |-> FloatStr(full_decimal)]
       ELSE [status |-> 200, result |-> res_int \o <<".">> \o res_frac]

FractionFromBases == {2, 10, 16}

IntegerParts == Strings({"0", "1", "-"}, MaxIntLen)

FractionParts == Strings({"0", "1", "5", "G"}, MaxFracLen)

\* literals without a point, with a point or a comma, and with two points
FractionNumbers ==
    IntegerParts
    \cup {ip \o <<sep>> \o fp : ip \in IntegerParts, sep \in {".", ","}, fp \in FractionParts}
    \cup {ip \o <<".">> \o fp \o <<".", "G">> : ip \in IntegerParts, fp \in FractionParts}

\* every digit of the fraction contributes a term binary64 holds exactly
ExactFraction(number, from_base) ==
    LET fraction_part == Parts(number)[2]
    IN \A i \in 1..Len(fraction_part) :
          DigitValue(fraction_part[i]) < from_base =>
             (DigitValue(fraction_part[i]) * Scale) % Pow(from_base, i) = 0

ConvertFractionRequests ==
    {req \in [number : FractionNumbers, from_base : FractionFromBases,
              to_base : ToBases, precision : (-1)..MaxPrecision] :
        ExactFraction(req.number, req.from_base)}

convert_fraction ==
    /\ endpoint = "idle"
    /\ \E req \in ConvertFractionRequests :
          /\ request' = req
          /\ response' = ConvertFraction(req)
    /\ endpoint' = "convert_fraction"
    /\ origin' = NoRequest

-----------------------------------------------------------------------------
(* binary_arithmetic *)

\* the handler with the negative result sliced like the positive one
BinaryArithmeticSliced(req) ==
    LET a == req.a
        b == req.b
        Reply(res_dec) ==
            [status |-> 200, result_bin |-> SliceFrom2(Bin(res_dec)), result_dec |-> res_dec]
    IN IF req.operation = "add" THEN Reply(a + b)
       ELSE IF req.operation = "sub" THEN Reply(a - b)
       ELSE IF req.operation = "mul" THEN Reply(a * b)
       ELSE BadOperation

BinaryArithmetic(req) ==
    LET a == req.a
        b == req.b
        Reply(res_dec) ==
            [status |-> 200,
             result_bin |-> IF res_dec >= 0 THEN SliceFrom2(Bin(res_dec))
                            ELSE <<"-">> \o SliceFrom2(Bin(Abs(res_dec))),
             result_dec |-> res_dec]
    IN IF req.operation = "add" THEN Reply(a + b)
       ELSE IF req.operation = "sub" THEN Reply(a - b)
       ELSE IF req.operation = "mul" THEN Reply(a * b)
       ELSE BadOperation

Operands == (-MaxOperand)..MaxOperand

ArithmeticRequests == [a : Operands, b : Operands, operation : {"add", "sub", "mul", "div"}]

binary_arithmetic ==
    /\ endpoint = "idle"
    /\ \E req \in ArithmeticRequests :
          /\ request' = req
          /\ response' = BinaryArithmetic(req)
    /\ endpoint' = "binary_arithmetic"
    /\ origin' = NoRequest

-----------------------------------------------------------------------------
(* ascii_encoder *)

\* no padding at all
NoFill(s, width) == s

\* str.zfill(width) on a string without a sign
RECURSIVE ZFill(_, _)
ZFill(s, width) == IF Len(s) >= width THEN s ELSE ZFill(<<"0">> \o s, width)

AsciiRecord(char) ==
    LET code == Ord(char)
    IN [char |-> char, dec |-> code, hex |-> Upper(SliceFrom2(Hex(code))),
        bin |-> ZFill(SliceFrom2(Bin(code)), 8)]

AsciiEncoder(req) ==
    [status |-> 200, data |-> [i \in 1..Len(req.text) |-> AsciiRecord(req.text[i])]]

TextChars == {"\n", " ", "0", "A", "z", "U+00FF", "U+0100"}

TextRequests == [text : Strings(TextChars, MaxText)]

ascii_encoder ==
    /\ endpoint = "idle"
    /\ \E req \in TextRequests :
          /\ request' = req
          /\ response' = AsciiEncoder(req)
    /\ endpoint' = "ascii_encoder"
    /\ origin' = NoRequest

-----------------------------------------------------------------------------

Init ==
    /\ endpoint = "idle"
    /\ request = NoRequest
    /\ response = NoRequest
    /\ origin = NoRequest

Next ==
    \/ convert_integer
    \/ convert_integer_back
    \/ convert_fraction
    \/ binary_arithmetic
    \/ ascii_encoder

Spec == Init /\ [][Next]_vars

\* one endpoint at a time
NextInt == convert_integer \/ convert_integer_back

SpecInt == Init /\ [][NextInt]_vars

SpecFraction == Init /\ [][convert_fraction]_vars

SpecArithmetic == Init /\ [][binary_arithmetic]_vars

SpecAscii == Init /\ [][ascii_encoder]_vars

-----------------------------------------------------------------------------
(* The vocabulary of the claims: what a digit string denotes, and what the   *)
(* canonical writing of an integer is.  None of it uses the handlers.        *)

IsDigitOf(c, base) == DigitValue(c) < base

DigitString(s, base) == s # <<>> /\ \A i \in 1..Len(s) : IsDigitOf(s[i], base)

Negative(s) == s # <<>> /\ Head(s) = "-"

Unsigned(s) == IF Negative(s) THEN Tail(s) ELSE s

\* an optional leading "-" and then digits of the base
ValidLiteral(s, base) == DigitString(Unsigned(s), base)

RECURSIVE Denoted(_, _)
Denoted(s, base) ==
    IF s = <<>> THEN 0
    ELSE Denoted(SubSeq(s, 1, Len(s) - 1), base) * base + DigitValue(s[Len(s)])

LiteralValue(s, base) ==
    IF Negative(s) THEN -Denoted(Unsigned(s), base) ELSE Denoted(Unsigned(s), base)

\* digits of the base, uppercase, no leading zero
CanonicalDigits(s, base) ==
    /\ s # <<>>
    /\ \A i \in 1..Len(s) : InSeq(UpperDigits, s[i]) /\ DigitValue(s[i]) < base
    /\ Len(s) = 1 \/ s[1] # "0"

\* text writes v in the base: "-" exactly when v is negative, then |v|
Writes(text, v, base) ==
    /\ Negative(text) <=> v < 0
    /\ CanonicalDigits(Unsigned(text), base)
    /\ Denoted(Unsigned(text), base) = Abs(v)

IsMark(c) == c \in {".", ","}

Marks(s) == {i \in 1..Len(s) : IsMark(s[i])}

Least(S) == CHOOSE i \in S : \A j \in S : i <= j

\* what stands before the first radix mark, and between it and the next one
BeforeMark(s) == IF Marks(s) = {} THEN s ELSE SubSeq(s, 1, Least(Marks(s)) - 1)

AfterMark(s) ==
    IF Marks(s) = {} THEN <<>>
    ELSE LET a == Least(Marks(s))
             later == Marks(s) \ {a}
             b == IF later = {} THEN Len(s) + 1 ELSE Least(later)
         IN SubSeq(s, a + 1, b - 1)

\* the value of the fraction 0.s in the base, as a numerator over Scale
FractionDenoted(s, base) == (Denoted(s, base) * Scale) \div Pow(base, Len(s))

\* the remainder left of r (over Scale) once the digits are taken as the
\* leading digits of its expansion in the base; -1 when they are not
RECURSIVE Remainder(_, _, _)
Remainder(digits, r, base) ==
    IF digits = <<>> THEN r
    ELSE LET left == r * base - DigitValue(Head(digits)) * Scale
         IN IF left < 0 \/ left >= Scale THEN -1
            ELSE Remainder(Tail(digits), left, base)

\* the decimal string text denotes the number x / Scale
DecimalDenotes(text, x) ==
    LET body == Unsigned(text)
    IN /\ Cardinality(Marks(body)) = 1
       /\ DigitString(BeforeMark(body), 10)
       /\ DigitString(AfterMark(body), 10)
       /\ Denoted(BeforeMark(body), 10) = Abs(x) \div Scale
       /\ Remainder(AfterMark(body), Abs(x) % Scale, 10) = 0
       /\ x < 0 => Negative(text)
       /\ Negative(text) => x <= 0

\* a literal with a sign, an integer part, one radix mark and a fraction
FractionLiteral(s, base) ==
    /\ Cardinality(Marks(s)) = 1
    /\ DigitString(Unsigned(BeforeMark(s)), base)
    /\ DigitString(AfterMark(s), base)

FractionLiteralValue(s, base) ==
    LET magnitude == Denoted(Unsigned(BeforeMark(s)), base) * Scale
                     + FractionDenoted(AfterMark(s), base)
    IN IF Negative(s) THEN -magnitude ELSE magnitude

-----------------------------------------------------------------------------
(* The claims *)

\* C1 as stated: a literal valid in from_base is converted, for every to_base
\* in {2,8,10,16}, to the writing of its value in to_base with "-" exactly
\* when it is negative, and decimal_value is the parsed signed integer.
C1_SignedResultAsClaimed ==
    (/\ endpoint = "convert_integer"
     /\ request.from_base \in Bases
     /\ request.to_base \in Bases
     /\ ValidLiteral(request.number, request.from_base))
    => /\ response.status = 200
       /\ response.decimal_value = LiteralValue(request.number, request.from_base)
       /\ Writes(response.result, LiteralValue(request.number, request.from_base),
                 request.to_base)

\* C2 as stated: a literal holding a character that is no digit of from_base,
\* apart from one leading "-" and (convert_fraction) one radix mark, is
\* rejected with status 400.
ForeignCharacter(number, base, radix) ==
    LET body == Unsigned(number)
        first == IF Marks(body) = {} THEN 0 ELSE Least(Marks(body))
    IN \E i \in 1..Len(body) :
          /\ ~IsDigitOf(body[i], base)
          /\ ~(radix /\ i = first)

C2_ForeignCharacterRejectedAsClaimed ==
    (/\ endpoint \in {"convert_integer", "convert_fraction"}
     /\ request.from_base \in Bases
     /\ request.to_base \in Bases
     /\ ForeignCharacter(request.number, request.from_base, endpoint = "convert_fraction"))
    => response.status = 400

\* C3 as stated: a conversion request whose from_base or to_base is not one of
\* 2, 8, 10, 16 is rejected with status 400.
C3_UnsupportedBaseRejectedAsClaimed ==
    (/\ endpoint \in {"convert_integer", "convert_fraction"}
     /\ (request.from_base \notin Bases \/ request.to_base \notin Bases))
    => response.status = 400

\* C4 as stated: converting a valid literal (a leading "-" included) from B to
\* D succeeds, and converting the result back from D to B succeeds and gives
\* the canonical writing of the literal.
C4_RoundTripAsClaimed ==
    /\ (/\ endpoint = "convert_integer"
        /\ origin = NoRequest
        /\ request.from_base \in Bases
        /\ request.to_base \in Bases
        /\ ValidLiteral(request.number, request.from_base))
       => response.status = 200
    /\ (/\ endpoint = "convert_integer"
        /\ origin # NoRequest
        /\ origin.from_base \in Bases
        /\ origin.to_base \in Bases
        /\ ValidLiteral(origin.number, origin.from_base))
       => /\ response.status = 200
          /\ Writes(response.result, LiteralValue(origin.number, origin.from_base),
                    origin.from_base)

\* C5 as stated: for a valid literal with an integer part and a fraction (a
\* leading "-" allowed), the string returned for to_base 10 denotes the number
\* the literal denotes, and for to_base in {2,8,16} the integer part of the
\* result writes the integer part of the literal with its sign.
C5_ValuePreservedAsClaimed ==
    (/\ endpoint = "convert_fraction"
     /\ request.from_base \in Bases
     /\ request.to_base \in Bases
     /\ FractionLiteral(request.number, request.from_base))
    => /\ response.status = 200
       /\ request.to_base = 10 =>
             DecimalDenotes(response.result,
                            FractionLiteralValue(request.number, request.from_base))
       /\ request.to_base # 10 =>
             Writes(BeforeMark(response.result),
                    LiteralValue(BeforeMark(request.number), request.from_base),
                    request.to_base)

C7_ExactArithmetic ==
    (/\ endpoint = "binary_arithmetic"
     /\ request.operation \in {"add", "sub", "mul"})
    => /\ response.status = 200
       /\ request.operation = "add" => response.result_dec = request.a + request.b
       /\ request.operation = "sub" => response.result_dec = request.a - request.b
       /\ request.operation = "mul" => response.result_dec = request.a * request.b
       /\ Writes(response.result_bin, response.result_dec, 2)
       /\ (request.operation = "add" /\ request.b = 0) => response.result_dec = request.a

\* 3 - 5 has been answered -2, "-10"
C7_Witness ==
    /\ endpoint = "binary_arithmetic"
    /\ request = [a |-> 3, b |-> 5, operation |-> "sub"]
    /\ response.status = 200
    /\ response.result_dec = -2
    /\ response.result_bin = <<"-", "1", "0">>

\* C8 as stated: a non-empty string h of hex digits converted from base 16 to
\* base 2 gives a string of length L with 4*len(h) - 3 <= L <= 4*len(h).
HexRequest ==
    /\ endpoint = "convert_integer"
    /\ request.from_base = 16
    /\ request.to_base = 2
    /\ DigitString(request.number, 16)

C8_HexLengthAsClaimed ==
    HexRequest
    => /\ response.status = 200
       /\ 4 * Len(request.number) - 3 <= Len(response.result)
       /\ Len(response.result) <= 4 * Len(request.number)

RECURSIVE Trimmed(_)
Trimmed(h) == IF Len(h) > 1 /\ Head(h) = "0" THEN Trimmed(Tail(h)) ELSE h

\* C8 amended: with h' the string h without its leading zeros (one digit is
\* kept), 4*len(h') - 3 <= L <= 4*len(h'); so L <= 4*len(h) in every case.
C8_HexLengthTrimmed ==
    HexRequest
    => /\ response.status = 200
       /\ 4 * Len(Trimmed(request.number)) - 3 <= Len(response.result)
       /\ Len(response.result) <= 4 * Len(Trimmed(request.number))
       /\ Len(response.result) <= 4 * Len(request.number)

\* "0F" has been converted from base 16 to base 2, giving "1111"
C8_Witness ==
    /\ HexRequest
    /\ request.number = <<"0", "F">>
    /\ response.status = 200
    /\ response.result = <<"1", "1", "1", "1">>

\* C9: the i-th record describes the i-th character of the text, one record
\* per occurrence; it holds the code point, its uppercase hex writing without
\* padding and its binary writing padded with zeros to 8 digits (exactly 8 for
\* a code point up to 255); "A" gives 65, "41", "01000001".
C9_AsciiRecords ==
    endpoint = "ascii_encoder"
    => /\ response.status = 200
       /\ Len(response.data) = Len(request.text)
       /\ \A i \in 1..Len(request.text) :
             LET rec == response.data[i]
                 code == Ord(request.text[i])
             IN /\ rec.char = request.text[i]
                /\ rec.dec = code
                /\ CanonicalDigits(rec.hex, 16)
                /\ Denoted(rec.hex, 16) = code
                /\ DigitString(rec.bin, 2)
                /\ Denoted(rec.bin, 2) = code
                /\ Len(rec.bin) >= 8
                /\ code <= 255 => Len(rec.bin) = 8
                /\ Len(rec.bin) > 8 => rec.bin[1] = "1"
       /\ request.text = <<"A">>
          => response.data = <<[char |-> "A", dec |-> 65, hex |-> <<"4", "1">>,
                                bin |-> <<"0", "1", "0", "0", "0", "0", "0", "1">>]>>

\* "AzA" has been encoded: three records, the first and the third alike
C9_Witness ==
    /\ endpoint = "ascii_encoder"
    /\ request.text = <<"A", "z", "A">>
    /\ Len(response.data) = 3
    /\ response.data[1] = response.data[3]
    /\ response.data[1].bin = <<"0", "1", "0", "0", "0", "0", "0", "1">>

====
